---- MODULE Spec2Model ----
(***************************************************************************)
(* Model of the index-membership backend (src/backend): the entity store   *)
(* of database.py, the SQLAlchemy session the services run in              *)
(* (autoflush off, one transaction per commit), the configuration          *)
(* reconciler process_master_config_csv, the constituent loader            *)
(* process_index_csv, the upload endpoint upload_index_file, the overlap   *)
(* analysis analyze_common_stocks, the alert parser parse_tradingview_csv  *)
(* of main.py and delete_index.                                            *)
(*                                                                         *)
(* A string is a sequence of symbols.  A symbol is one character, or a     *)
(* whole literal the code never takes apart (a display name, a category).  *)
(***************************************************************************)
EXTENDS Integers, Sequences, FiniteSets, TLC

VARIABLES db, sess, resp, last, batch, nops

vars == <<db, sess, resp, last, batch, nops>>

-----------------------------------------------------------------------------
(* Bounds of the model *)

MaxRows == 2

MaxLines == 3

MaxFiles == 2

MaxIndices == 2

MaxOps == 2

-----------------------------------------------------------------------------
(* Strings *)

\* Python None, SQL NULL
None == <<"None">>

Empty == << >>

Truthy(s) == s # None /\ s # Empty

UpperChar(c) ==
    CASE c = "a" -> "A"
      [] c = "b" -> "B"
      [] c = "c" -> "C"
      [] c = "x" -> "X"
      [] c = "y" -> "Y"
      [] OTHER -> c

\* str.upper()
Upper(s) == [i \in 1..Len(s) |-> UpperChar(s[i])]

RECURSIVE LStrip(_)
LStrip(s) == IF s # << >> /\ Head(s) = " " THEN LStrip(Tail(s)) ELSE s

RECURSIVE RStrip(_)
RStrip(s) ==
    IF s # << >> /\ s[Len(s)] = " " THEN RStrip(SubSeq(s, 1, Len(s) - 1)) ELSE s

\* str.strip()
Strip(s) == RStrip(LStrip(s))

RECURSIVE SplitFirst(_, _)
\* s.split(sep)[0]
SplitFirst(s, sep) ==
    IF s = << >> \/ Head(s) = sep THEN << >>
    ELSE <<Head(s)>> \o SplitFirst(Tail(s), sep)

\* s.replace(a, b) for one-character a, b
Replace(s, a, b) == [i \in 1..Len(s) |-> IF s[i] = a THEN b ELSE s[i]]

-----------------------------------------------------------------------------
(* The entity store *)

EmptyFn == [x \in {} |-> 0]

EmptyStore == [indices |-> EmptyFn, stocks |-> EmptyFn, edges |-> {}, tvmap |-> EmptyFn]

UnnamedIndex == <<"Unnamed Index">>

Uncategorized == <<"Uncategorized">>

\* Column defaults of a row of table indices
IndexRow(name) ==
    [name |-> name, display_name |-> UnnamedIndex, category |-> None,
     tv_ticker |-> None, expected_filename |-> None,
     original_filename |-> None, record_count |-> 0]

SetMax(S) == IF S = {} THEN 0 ELSE CHOOSE m \in S : \A x \in S : x <= m

SetMin(S) == CHOOSE m \in S : \A x \in S : m <= x

\* An INTEGER PRIMARY KEY column of SQLite: the largest key in the table plus one
NextId(table) == SetMax(DOMAIN table) + 1

\* The queries of the services, evaluated by the database on the rows of the
\* transaction (autoflush is off: pending changes of the session are not seen)
IdsByName(ind, name) == {i \in DOMAIN ind : ind[i].name = name}

IdsByFilename(ind, f) == {i \in DOMAIN ind : ind[i].expected_filename = f}

\* Query.first(): a row or None (0)
First(S) == IF S = {} THEN 0 ELSE SetMin(S)

\* A table without the UNIQUE constraints
NoUniqueCheck(ind) == TRUE

\* unique=True on indices.name and indices.expected_filename (NULLs are distinct)
UniqueOk(ind) ==
    \A i, j \in DOMAIN ind :
        i # j =>
            /\ ind[i].name # ind[j].name
            /\ (ind[i].expected_filename # None
                    => ind[i].expected_filename # ind[j].expected_filename)

-----------------------------------------------------------------------------
(* The session: SessionLocal of database.py, autoflush off.                *)
(*   tx       the rows of the open transaction: the committed store plus   *)
(*            what the session has flushed                                 *)
(*   mem      the Index objects the session has changed and not flushed    *)
(*   newMaps  the TradingViewMap objects added and not flushed             *)
(*   mapMem   the index_id of TradingViewMap objects changed, not flushed  *)
(*   raised   an exception left the service function, error names it       *)
(*   poisoned a flush failed and nobody called rollback(): every later use *)
(*            of the session raises PendingRollbackError                   *)

IdleSess ==
    [kind |-> "idle", tx |-> EmptyStore, mem |-> EmptyFn, newMaps |-> << >>,
     mapMem |-> EmptyFn, count |-> 0, nrows |-> 0, raised |-> FALSE,
     error |-> "none", poisoned |-> FALSE, index_id |-> 0, results |-> << >>, errors |-> << >>,
     nfiles |-> 0,
     \* history of the request, read by the properties only
     lastRow |-> [target |-> 0, fname |-> None, victims |-> {},
                  row |-> EmptyFn, before |-> EmptyFn],
     tvLast |-> EmptyFn]

\* The attributes of Index object i as the session holds them: an object of the
\* identity map keeps its in-memory values, a query does not refresh them
Effective(S, i) == IF i \in DOMAIN S.mem THEN S.mem[i] ELSE S.tx.indices[i]

RECURSIVE FlushUpdates(_, _, _)
\* The UPDATE statements of one flush: one per changed object, in primary key
\* order, each checked by the database when it runs
FlushUpdates(ind, mem, ids) ==
    IF ids = {} THEN [ok |-> TRUE, indices |-> ind]
    ELSE LET i == SetMin(ids)
             ind2 == [ind EXCEPT ![i] = mem[i]]
         IN  IF ~UniqueOk(ind2) THEN [ok |-> FALSE, indices |-> ind]
             ELSE FlushUpdates(ind2, mem, ids \ {i})

RECURSIVE InsertMaps(_, _)
\* The INSERTs into tv_map of one flush; tv_alert_name is the primary key
InsertMaps(tvmap, pending) ==
    IF pending = << >> THEN [ok |-> TRUE, tvmap |-> tvmap]
    ELSE LET k == Head(pending)[1]
         IN  IF k \in DOMAIN tvmap THEN [ok |-> FALSE, tvmap |-> tvmap]
             ELSE InsertMaps((k :> Head(pending)[2]) @@ tvmap, Tail(pending))

\* Session.flush(): write every pending change into the transaction; an
\* IntegrityError leaves the session raised
FlushSession(S) ==
    LET dirty == {i \in DOMAIN S.mem : S.mem[i] # S.tx.indices[i]}
        u == FlushUpdates(S.tx.indices, S.mem, dirty)
        maps1 == [k \in DOMAIN S.tx.tvmap |->
                    IF k \in DOMAIN S.mapMem THEN S.mapMem[k] ELSE S.tx.tvmap[k]]
        m == InsertMaps(maps1, S.newMaps)
    IN  IF ~u.ok
        THEN [S EXCEPT !.raised = TRUE, !.poisoned = TRUE,
                       !.error = "UNIQUE constraint failed: indices"]
        ELSE IF ~m.ok
        THEN [S EXCEPT !.raised = TRUE, !.poisoned = TRUE,
                       !.error = "UNIQUE constraint failed: tv_map"]
        ELSE [S EXCEPT !.tx.indices = u.indices, !.tx.tvmap = m.tvmap,
                       !.mem = EmptyFn, !.newMaps = << >>, !.mapMem = EmptyFn]

\* Session.commit(): flush, then make the transaction the committed store
CommitSession(d, S) ==
    LET Flushed(F) == IF F.raised THEN [db |-> d, s |-> F] ELSE [db |-> F.tx, s |-> F]
    IN  Flushed(FlushSession(S))

-----------------------------------------------------------------------------
(* process_master_config_csv, one row of the reader at a time *)

RowFilename(row) == Strip(row.Filename)

RowName(row) == Upper(Strip(row.Name))

\* db.commit() in the place of db.flush()
CommitAtCreate(d, S) == CommitSession(d, S)

\* db.flush() after db.add(index): flushes, does not commit
FlushAtCreate(d, S) == [db |-> d, s |-> FlushSession(S)]

\* Step 1: the target Index of the row: id 0 with skip when the row is skipped
ResolveTarget(d, S, row) ==
    LET filename == RowFilename(row)
        name == RowName(row)
        byName == IF name # Empty THEN First(IdsByName(S.tx.indices, name)) ELSE 0
        byFile == IF byName = 0 /\ filename # Empty
                  THEN First(IdsByFilename(S.tx.indices, filename)) ELSE 0
        found == IF byName # 0 THEN byName ELSE byFile
        final_name == IF name # Empty THEN name ELSE Upper(filename)
    IN  IF found # 0 THEN [db |-> d, s |-> S, id |-> found, skip |-> FALSE]
        ELSE IF IdsByName(S.tx.indices, final_name) # {}
        THEN [db |-> d, s |-> S, id |-> 0, skip |-> TRUE]
        ELSE LET Added(F, id) ==
                     IF F.s.raised THEN [db |-> F.db, s |-> F.s, id |-> 0, skip |-> FALSE]
                     ELSE [db |-> F.db,
                           s |-> [F.s EXCEPT
                                    !.tx.indices = (id :> IndexRow(final_name)) @@ @],
                           id |-> id, skip |-> FALSE]
                 Flushed(F) == Added(F, NextId(F.s.tx.indices))
             IN  Flushed(FlushAtCreate(d, S))

\* An assignment that leaves the filename alone when the row gives none
AssignFilenameIfGiven(index, new_filename) ==
    IF new_filename = None THEN index
    ELSE [index EXCEPT !.expected_filename = new_filename]

\* index.expected_filename = new_filename
AssignFilename(index, new_filename) ==
    [index EXCEPT !.expected_filename = new_filename]

\* Steps 2 to 4 on the resolved Index
ApplyRow(S, id, row) ==
    LET filename == RowFilename(row)
        o1 == Effective(S, id)
        o2 == [o1 EXCEPT
                 !.display_name = IF Truthy(row.DisplayName) THEN row.DisplayName ELSE @,
                 !.category = IF Truthy(row.Category) THEN row.Category ELSE @]
    IN  IF row.TVTicker = None
        THEN \* a short row: DictReader fills None, None.strip() raises
             [S EXCEPT !.raised = TRUE, !.error = "AttributeError"]
        ELSE
        LET tv == Strip(row.TVTicker)
            tv_ticker == IF tv # Empty THEN tv ELSE None
            new_filename == IF filename # Empty THEN filename ELSE None
            conflict == IF new_filename # None
                        THEN First(IdsByFilename(S.tx.indices, new_filename) \ {id})
                        ELSE 0
            o3 == AssignFilename([o2 EXCEPT !.tv_ticker = tv_ticker], new_filename)
            mem1 == IF conflict # 0
                    THEN (conflict :> [Effective(S, conflict)
                                         EXCEPT !.expected_filename = None]) @@ S.mem
                    ELSE S.mem
            existing_map == tv_ticker # None /\ tv_ticker \in DOMAIN S.tx.tvmap
        IN  [S EXCEPT
               !.mem = (id :> o3) @@ mem1,
               !.newMaps = IF tv_ticker # None /\ ~existing_map
                           THEN Append(@, <<tv_ticker, id>>) ELSE @,
               !.mapMem = IF existing_map THEN (tv_ticker :> id) @@ @ ELSE @,
               !.count = @ + 1,
               !.lastRow = [target |-> id, fname |-> new_filename,
                            victims |-> IF new_filename = None THEN {}
                                        ELSE {j \in DOMAIN S.tx.indices \ {id} :
                                                Effective(S, j).expected_filename
                                                    = new_filename},
                            row |-> row, before |-> o1],
               !.tvLast = IF tv_ticker # None THEN (tv_ticker :> id) @@ @ ELSE @]

NoTarget ==
    [target |-> 0, fname |-> None, victims |-> {}, row |-> EmptyFn, before |-> EmptyFn]

\* The body of the loop over the reader for one row
ConfigRow(d, S, row) ==
    IF RowFilename(row) = Empty /\ RowName(row) = Empty
    THEN [db |-> d, s |-> [S EXCEPT !.lastRow = NoTarget]]
    ELSE LET Resolved(R) ==
                 IF R.skip \/ R.s.raised
                 THEN [db |-> R.db, s |-> [R.s EXCEPT !.lastRow = NoTarget]]
                 ELSE [db |-> R.db, s |-> ApplyRow(R.s, R.id, row)]
         IN  Resolved(ResolveTarget(d, S, row))

-----------------------------------------------------------------------------
(* process_index_csv *)

\* file_name.upper().split('.')[0]
NameFromFile(file_name) == SplitFirst(Upper(file_name), ".")

RECURSIVE ExtractTickers(_)
\* [row[0].strip().upper() for row in csv_reader if row and row[0].strip()]
ExtractTickers(lines) ==
    IF lines = << >> THEN << >>
    ELSE IF Strip(Head(lines)) = Empty THEN ExtractTickers(Tail(lines))
    ELSE <<Upper(Strip(Head(lines)))>> \o ExtractTickers(Tail(lines))

\* Step 1, A to C: the id of the target Index, 0 when none is found
ResolveUpload(ind, file_name, index_id) ==
    LET a == IF index_id # 0 /\ index_id \in DOMAIN ind THEN index_id ELSE 0
        b == IF a # 0 THEN a ELSE First(IdsByFilename(ind, file_name))
    IN  IF b # 0 THEN b ELSE First(IdsByName(ind, NameFromFile(file_name)))

\* Step 1, D: the Index created when nothing matched
NewUploadIndex(file_name, category) ==
    [IndexRow(NameFromFile(file_name)) EXCEPT
       !.display_name = Replace(NameFromFile(file_name), "_", " "),
       !.category = IF Truthy(category) THEN category ELSE Uncategorized,
       !.expected_filename = file_name]

\* Step 2: category and upload bookkeeping (file_size_kb and upload_date are
\* written with original_filename and stand with it)
UploadMetadata(rec, file_name, category) ==
    [rec EXCEPT
       !.category = IF Truthy(category) /\ (~Truthy(@) \/ @ = Uncategorized)
                    THEN category ELSE @,
       !.original_filename = file_name]

RECURSIVE InsertEdges(_, _)
\* The INSERTs into index_constituents of one flush; (index_id, stock_id) is
\* the primary key
InsertEdges(edges, pending) ==
    IF pending = << >> THEN [ok |-> TRUE, edges |-> edges]
    ELSE IF Head(pending) \in edges THEN [ok |-> FALSE, edges |-> edges]
    ELSE InsertEdges(edges \cup {Head(pending)}, Tail(pending))

EdgesOf(d, id) == {e \in d.edges : e[1] = id}

StockId(d, ticker) == First({k \in DOMAIN d.stocks : d.stocks[k] = ticker})

RECURSIVE AddTickers(_, _, _, _)
\* The loop over tickers: get_or_create_stock commits when it creates a Stock,
\* and with it whatever constituents are pending
AddTickers(d, id, tickers, pending) ==
    IF tickers = << >> THEN [ok |-> TRUE, db |-> d, pending |-> pending]
    ELSE LET ticker == Head(tickers)
             found == StockId(d, ticker)
         IN  IF found # 0
             THEN AddTickers(d, id, Tail(tickers), Append(pending, <<id, found>>))
             ELSE LET sid == NextId(d.stocks)
                      E == InsertEdges(d.edges, pending)
                  IN  IF ~E.ok THEN [ok |-> FALSE, db |-> d, pending |-> << >>]
                      ELSE AddTickers([d EXCEPT !.stocks = (sid :> ticker) @@ @,
                                                !.edges = E.edges],
                                      id, Tail(tickers), <<<<id, sid>>>>)

\* Steps 1 and 2 with the first commit: the store, the target id
ResolveAndCommit(d, file_name, index_id, category) ==
    LET found == ResolveUpload(d.indices, file_name, index_id)
        id == IF found # 0 THEN found ELSE NextId(d.indices)
        rec == IF found # 0 THEN d.indices[found]
               ELSE NewUploadIndex(file_name, category)
        ind == (id :> UploadMetadata(rec, file_name, category)) @@ d.indices
    IN  IF UniqueOk(ind) THEN [ok |-> TRUE, db |-> [d EXCEPT !.indices = ind], id |-> id]
        ELSE [ok |-> FALSE, db |-> d, id |-> id]

\* Clear old constituents, commit
ClearConstituents(d, id) == [d EXCEPT !.edges = @ \ EdgesOf(d, id)]

\* index.record_count = stock_count, the last commit
FinalCommit(d, id, pending, stock_count) ==
    LET Flushed(E) ==
            IF ~E.ok THEN [ok |-> FALSE, db |-> d]
            ELSE [ok |-> TRUE,
                  db |-> [d EXCEPT !.edges = E.edges,
                                   !.indices[id].record_count = stock_count]]
    IN  Flushed(InsertEdges(d.edges, pending))

\* The whole call on a session whose transaction is clean.  ok FALSE: the call
\* raised, and left the session poisoned if a flush had failed
ProcessIndexCsv(d, S, file_name, lines, index_id, category) ==
    LET tickers == ExtractTickers(lines)
        Fail(dd, id, p) ==
            [ok |-> FALSE, db |-> dd, s |-> [S EXCEPT !.poisoned = p],
             target |-> id, tickers |-> tickers, stocks_added |-> 0]
        Counted(F, id) ==
            IF ~F.ok THEN Fail(F.db, id, TRUE)
            ELSE [ok |-> TRUE, db |-> F.db, s |-> S, target |-> id,
                  tickers |-> tickers, stocks_added |-> Len(tickers)]
        Populated(A, id) ==
            IF ~A.ok THEN Fail(A.db, id, TRUE)
            ELSE Counted(FinalCommit(A.db, id, A.pending, Len(tickers)), id)
        Resolved(R) ==
            IF ~R.ok THEN Fail(d, 0, TRUE)
            ELSE Populated(AddTickers(ClearConstituents(R.db, R.id), R.id,
                                      tickers, << >>), R.id)
    IN  IF S.poisoned THEN Fail(d, 0, TRUE)
        ELSE Resolved(ResolveAndCommit(d, file_name, index_id, category))

-----------------------------------------------------------------------------
(* upload_index_file, the handler of POST /api/setup/upload-index (the first *)
(* of the two definitions: the route registered first answers)               *)

\* An endpoint that resolves as process_index_csv does, steps A to C
EndpointTargetAllSteps(ind, file_name, index_id) ==
    ResolveUpload(ind, file_name, index_id)

\* target_index of the endpoint: by index_id when given, else by filename
EndpointTarget(ind, file_name, index_id) ==
    IF index_id # 0
    THEN (IF index_id \in DOMAIN ind THEN index_id ELSE 0)
    ELSE First(IdsByFilename(ind, file_name))

\* The body of the loop over files for one file.  crashed: the exception left
\* the handler (the query of target_index is outside the try)
UploadOneFile(d, S, file_name, lines) ==
    IF S.poisoned
    THEN [crashed |-> TRUE, db |-> d, s |-> S, unmatched |-> FALSE, loaded |-> FALSE,
          target |-> 0, tickers |-> << >>]
    ELSE
    LET target == EndpointTarget(d.indices, file_name, S.index_id)
    IN  IF target = 0
        THEN [crashed |-> FALSE, db |-> d,
              s |-> [S EXCEPT !.errors = Append(@, <<file_name, "Unknown file">>),
                              !.nfiles = @ + 1],
              unmatched |-> TRUE, loaded |-> FALSE, target |-> 0, tickers |-> << >>]
        ELSE
        LET Called(P) ==
                [crashed |-> FALSE, db |-> P.db,
                 s |-> IF P.ok
                       THEN [P.s EXCEPT
                               !.results = Append(@, <<file_name, P.stocks_added>>),
                               !.nfiles = @ + 1]
                       ELSE [P.s EXCEPT !.errors = Append(@, <<file_name, "exception">>),
                                        !.nfiles = @ + 1],
                 unmatched |-> FALSE, loaded |-> P.ok, target |-> P.target,
                 tickers |-> P.tickers]
        IN  Called(ProcessIndexCsv(d, S, file_name, lines, target,
                                   d.indices[target].category))

-----------------------------------------------------------------------------
(* Inputs *)

RawNames == {Empty, <<"a", " ">>, <<"B">>}

RawFilenames == {Empty, <<"a", ".", "c">>, <<"b", ".", "c">>}

DisplayNames == {Empty, <<"d">>}

Categories == {Empty, <<"k">>}

\* None: the column is missing from a short row
TVTickers == {Empty, <<"t">>, None}

AllRows ==
    [Filename : RawFilenames, Name : RawNames, DisplayName : DisplayNames,
     Category : Categories, TVTicker : TVTickers]

\* The rows of SpecConfig: display name and category both given or both blank
ConfigRows == {r \in AllRows : (r.DisplayName = Empty) <=> (r.Category = Empty)}

\* The rows of Spec: display name and category blank
PlainRows == {r \in AllRows : r.DisplayName = Empty /\ r.Category = Empty}

UploadNames == {<<"a", ".", "c">>, <<"b", ".", "c">>, <<"a", ".", "d">>}

RawLines == {<<" ">>, <<"x">>, <<"y", " ">>}

\* The first fields of the lines of a constituent file
Contents == UNION {[1..n -> RawLines] : n \in 0..MaxLines}

\* The files of Spec: at most one line
ShortContents == {c \in Contents : Len(c) <= 1}

\* The index_id parameter: 0 is an absent (or zero) value
IndexIds == 0..MaxIndices

UploadCategories == {None, <<"k">>}

-----------------------------------------------------------------------------
(* Requests.  One request runs at a time.  resp is the answer to the request *)
(* that ended last; last is the history of the file handled last: the run of *)
(* process_index_csv on it, and what its target looked like before.  Both    *)
(* are cleared when the next request starts.  batch is the batch SpecIdem    *)
(* runs twice.                                                               *)

NoResp ==
    [op |-> "none", ok |-> TRUE, error |-> "none", count |-> 0, staged |-> 0,
     lastRow |-> NoTarget, tvLast |-> EmptyFn,
     processed |-> << >>, errors |-> << >>, nfiles |-> 0,
     args |-> EmptyFn, result |-> EmptyFn]

NoFile ==
    [seen |-> FALSE, file_name |-> Empty, index_id |-> 0, unmatched |-> FALSE,
     crashed |-> FALSE, aloneOk |-> FALSE,
     called |-> FALSE, ok |-> TRUE, target |-> 0, tickers |-> << >>,
     existed |-> FALSE, beforeRec |-> IndexRow(Empty), beforeEdges |-> {}]

\* The history of a run of process_index_csv on store d
CallOf(d, file_name, index_id, ok, target, tickers) ==
    [NoFile EXCEPT
       !.seen = TRUE, !.file_name = file_name, !.index_id = index_id,
       !.called = TRUE, !.ok = ok, !.target = target, !.tickers = tickers,
       !.existed = target \in DOMAIN d.indices,
       !.beforeRec = IF target \in DOMAIN d.indices THEN d.indices[target] ELSE @,
       !.beforeEdges = EdgesOf(d, target)]

Init ==
    /\ db = EmptyStore
    /\ sess = IdleSess
    /\ resp = NoResp
    /\ last = NoFile
    /\ batch = << >>
    /\ nops = 0

\* upload_master_config: a request opens a session on the committed store
BeginMasterConfig ==
    /\ sess.kind = "idle"
    /\ nops < MaxOps
    /\ sess' = [IdleSess EXCEPT !.kind = "config", !.tx = db]
    /\ resp' = NoResp
    /\ last' = NoFile
    /\ nops' = nops + 1
    /\ UNCHANGED <<db, batch>>

\* for row in reader: the next row; an exception ends the request with a 500
MasterConfigRow(row) ==
    /\ sess.kind = "config"
    /\ sess.nrows < MaxRows
    /\ LET Done(R) ==
               /\ Cardinality(DOMAIN R.s.tx.indices) <= MaxIndices
               /\ db' = R.db
               /\ IF R.s.raised
                  THEN /\ sess' = IdleSess
                       /\ resp' = [NoResp EXCEPT !.op = "config", !.ok = FALSE,
                                                 !.error = R.s.error,
                                                 !.staged = sess.count]
                  ELSE /\ sess' = [R.s EXCEPT !.nrows = @ + 1]
                       /\ UNCHANGED resp
       IN  Done(ConfigRow(db, sess, row))
    /\ UNCHANGED <<last, batch, nops>>

\* the reader is exhausted: db.commit() and return processed_count
MasterConfigReturn ==
    /\ sess.kind = "config"
    /\ LET Done(C) ==
               /\ db' = C.db
               /\ resp' = [NoResp EXCEPT !.op = "config", !.ok = ~C.s.raised,
                                         !.error = C.s.error,
                                         !.count = IF C.s.raised THEN 0 ELSE sess.count,
                                         !.staged = sess.count,
                                         !.lastRow = sess.lastRow,
                                         !.tvLast = sess.tvLast]
       IN  Done(CommitSession(db, sess))
    /\ sess' = IdleSess
    /\ UNCHANGED <<last, batch, nops>>

\* process_index_csv called on a session of its own
CallProcessIndexCsv(file_name, lines, index_id, category) ==
    /\ sess.kind = "idle"
    /\ nops < MaxOps
    /\ LET Done(P) ==
               /\ Cardinality(DOMAIN P.db.indices) <= MaxIndices
               /\ db' = P.db
               /\ resp' = [NoResp EXCEPT !.op = "process_index_csv", !.ok = P.ok,
                                         !.args = [category |-> category]]
               /\ last' = CallOf(db, file_name, index_id, P.ok, P.target, P.tickers)
       IN  Done(ProcessIndexCsv(db, IdleSess, file_name, lines, index_id, category))
    /\ nops' = nops + 1
    /\ UNCHANGED <<sess, batch>>

\* upload_index_file: the request, with its index_id form field
BeginUpload(index_id) ==
    /\ sess.kind = "idle"
    /\ nops < MaxOps
    /\ sess' = [IdleSess EXCEPT !.kind = "upload", !.index_id = index_id]
    /\ resp' = NoResp
    /\ last' = NoFile
    /\ nops' = nops + 1
    /\ UNCHANGED <<db, batch>>

\* for file in files: the next file
UploadFile(file_name, lines) ==
    /\ sess.kind = "upload"
    /\ sess.nfiles < MaxFiles
    /\ LET Done(U, aloneOk) ==
               LET seen == [NoFile EXCEPT !.seen = TRUE, !.file_name = file_name,
                                          !.index_id = sess.index_id,
                                          !.aloneOk = aloneOk]
               IN  /\ db' = U.db
                   /\ IF U.crashed
                      THEN /\ sess' = IdleSess
                           /\ resp' = [NoResp EXCEPT !.op = "upload", !.ok = FALSE,
                                                     !.error = "PendingRollbackError"]
                           /\ last' = [seen EXCEPT !.crashed = TRUE]
                      ELSE /\ sess' = U.s
                           /\ UNCHANGED resp
                           /\ last' = IF U.unmatched
                                      THEN [seen EXCEPT !.unmatched = TRUE]
                                      ELSE [CallOf(db, file_name, sess.index_id,
                                                   U.loaded, U.target, U.tickers)
                                              EXCEPT !.aloneOk = aloneOk]
       IN  Done(UploadOneFile(db, sess, file_name, lines),
                UploadOneFile(db, [IdleSess EXCEPT !.kind = "upload",
                                                    !.index_id = sess.index_id],
                              file_name, lines).loaded)
    /\ UNCHANGED <<batch, nops>>

\* the response with the processed and errors lists
UploadReturn ==
    /\ sess.kind = "upload"
    /\ resp' = [NoResp EXCEPT !.op = "upload", !.processed = sess.results,
                              !.errors = sess.errors, !.nfiles = sess.nfiles]
    /\ sess' = IdleSess
    /\ last' = NoFile
    /\ UNCHANGED <<db, batch, nops>>

Next ==
    \/ BeginMasterConfig
    \/ \E row \in PlainRows : MasterConfigRow(row)
    \/ MasterConfigReturn
    \/ \E f \in UploadNames, c \in ShortContents, i \in IndexIds, k \in UploadCategories :
          CallProcessIndexCsv(f, c, i, k)
    \/ \E i \in IndexIds : BeginUpload(i)
    \/ \E f \in UploadNames, c \in ShortContents : UploadFile(f, c)
    \/ UploadReturn

\* Every request of the program, one after the other
Spec == Init /\ [][Next]_vars

NextConfig ==
    \/ BeginMasterConfig
    \/ \E row \in ConfigRows : MasterConfigRow(row)
    \/ MasterConfigReturn

\* Configuration batches alone
SpecConfig == Init /\ [][NextConfig]_vars

NextUpload ==
    \/ \E f \in UploadNames, c \in Contents, i \in IndexIds, k \in UploadCategories :
          CallProcessIndexCsv(f, c, i, k)
    \/ \E i \in IndexIds : BeginUpload(i)
    \/ \E f \in UploadNames, c \in Contents : UploadFile(f, c)
    \/ UploadReturn

\* Constituent uploads alone, through the service and through the endpoint
SpecUpload == Init /\ [][NextUpload]_vars

-----------------------------------------------------------------------------
(* A configuration batch run twice *)

RECURSIVE RunRows(_, _, _)
\* The loop over the reader: stops at the row that raises
RunRows(d, S, rows) ==
    IF rows = << >> \/ S.raised THEN [db |-> d, s |-> S]
    ELSE LET Rest(R) == RunRows(R.db, R.s, Tail(rows))
         IN  Rest(ConfigRow(d, S, Head(rows)))

\* process_master_config_csv on a session of its own
ProcessMasterConfig(d, rows) ==
    LET Committed(C, count) ==
            [db |-> C.db, ok |-> ~C.s.raised,
             count |-> IF C.s.raised THEN 0 ELSE count]
        Read(R) ==
            IF R.s.raised THEN [db |-> R.db, ok |-> FALSE, count |-> 0]
            ELSE Committed(CommitSession(R.db, R.s), R.s.count)
    IN  Read(RunRows(d, [IdleSess EXCEPT !.kind = "config", !.tx = d], rows))

Batches == UNION {[1..n -> ConfigRows] : n \in 1..MaxRows}

\* The first run, kept when it succeeds
FirstRun(rows) ==
    /\ nops = 0
    /\ LET Done(P) ==
               /\ P.ok
               /\ db' = P.db
               /\ resp' = [NoResp EXCEPT !.op = "config", !.count = P.count]
       IN  Done(ProcessMasterConfig(db, rows))
    /\ batch' = rows
    /\ nops' = 1
    /\ UNCHANGED <<sess, last>>

\* The same batch again
SecondRun ==
    /\ nops = 1
    /\ LET Done(P) ==
               /\ db' = P.db
               /\ resp' = [NoResp EXCEPT !.op = "rerun", !.ok = P.ok, !.count = P.count]
       IN  Done(ProcessMasterConfig(db, batch))
    /\ nops' = 2
    /\ UNCHANGED <<sess, last, batch>>

NextIdem == (\E rows \in Batches : FirstRun(rows)) \/ SecondRun

SpecIdem == Init /\ [][NextIdem]_vars

-----------------------------------------------------------------------------
(* The arithmetic of analyze_common_stocks.  A natural number is a sequence  *)
(* of bits, least significant first; a double is its 53-bit significand and  *)
(* a power of two.                                                           *)

RECURSIVE NatBits(_)
NatBits(n) == IF n = 0 THEN << >> ELSE <<n % 2>> \o NatBits(n \div 2)

RECURSIVE Zeros(_)
Zeros(k) == IF k <= 0 THEN << >> ELSE <<0>> \o Zeros(k - 1)

RECURSIVE Trim(_)
\* Without the leading zero bits
Trim(b) == IF b # << >> /\ b[Len(b)] = 0 THEN Trim(SubSeq(b, 1, Len(b) - 1)) ELSE b

RECURSIVE AddBits(_, _, _)
AddBits(a, b, carry) ==
    IF a = << >> /\ b = << >>
    THEN (IF carry = 0 THEN << >> ELSE <<1>>)
    ELSE LET x == IF a = << >> THEN 0 ELSE Head(a)
             y == IF b = << >> THEN 0 ELSE Head(b)
             t == x + y + carry
         IN  <<t % 2>> \o AddBits(IF a = << >> THEN a ELSE Tail(a),
                                  IF b = << >> THEN b ELSE Tail(b), t \div 2)

RECURSIVE TimesNat(_, _)
TimesNat(a, n) == IF n = 0 THEN << >> ELSE AddBits(a, TimesNat(a, n - 1), 0)

RECURSIVE GeqFrom(_, _, _)
GeqFrom(a, b, i) ==
    IF i = 0 THEN TRUE
    ELSE IF a[i] # b[i] THEN a[i] > b[i]
    ELSE GeqFrom(a, b, i - 1)

\* a >= b on naturals
GeqBits(a, b) ==
    LET x == Trim(a)
        y == Trim(b)
    IN  IF Len(x) # Len(y) THEN Len(x) > Len(y) ELSE GeqFrom(x, y, Len(x))

\* The width of the significand of a double
SignificandBits == 53

RECURSIVE Repeat(_, _)
Repeat(q, k) == IF k = 0 THEN << >> ELSE q \o Repeat(q, k - 1)

\* The literal 0.7: the double 0x3FE6666666666666, significand
\* 0x16666666666666, in units of 2^-53
Double07 == Repeat(<<0, 1, 1, 0>>, 13) \o <<1>>

\* A natural rounded to 53 significant bits, ties to even
RoundToDouble(b) ==
    LET p == Trim(b)
        s == Len(p) - SignificandBits
    IN  IF s <= 0 THEN p
        ELSE LET high == SubSeq(p, s + 1, Len(p))
                 half == p[s] = 1
                 sticky == \E i \in 1..(s - 1) : p[i] = 1
                 up == half /\ (sticky \/ high[1] = 1)
             IN  Zeros(s) \o (IF up THEN AddBits(high, <<1>>, 0) ELSE high)

\* 0.7 * total_indices_selected, in units of 2^-53
HighOverlapThreshold(n) == RoundToDouble(TimesNat(Double07, n))

\* The comparison with > in the place of >=
AboveThreshold(c, n) ==
    ~GeqBits(HighOverlapThreshold(n), Zeros(SignificandBits) \o NatBits(c))

\* item['appears_in'] >= high_overlap_threshold
AtLeastThreshold(c, n) ==
    GeqBits(Zeros(SignificandBits) \o NatBits(c), HighOverlapThreshold(n))

\* round(total / unique, 1) in tenths: the quotient of two small integers,
\* rounded to one decimal, ties to even (the double of the quotient rounds as
\* the quotient itself does while unique is below 20)
RoundTenths(total, unique) ==
    LET f == (10 * total) \div unique
        r == (10 * total) % unique
    IN  IF 2 * r < unique THEN f
        ELSE IF 2 * r > unique THEN f + 1
        ELSE IF f % 2 = 0 THEN f ELSE f + 1

-----------------------------------------------------------------------------
(* analyze_common_stocks *)

\* The orders in which a query without ORDER BY can return the elements of S
Perms(S) ==
    {q \in [1..Cardinality(S) -> S] : \A i, j \in 1..Cardinality(S) : i # j => q[i] # q[j]}

RECURSIVE Keep(_, _)
\* The elements of q that are in S, in the order of q
Keep(q, S) ==
    IF q = << >> THEN << >>
    ELSE IF Head(q) \in S THEN <<Head(q)>> \o Keep(Tail(q), S)
    ELSE Keep(Tail(q), S)

RECURSIVE TickerPairs(_, _, _)
\* The two loops over indices and index.stocks: the (index, ticker) pairs in the
\* order they are seen.  stockOrder[i] is the order of the rows of index i
TickerPairs(d, indices, stockOrder) ==
    IF indices = << >> THEN << >>
    ELSE LET i == Head(indices)
             members == stockOrder[i]
         IN  [n \in 1..Len(members) |-> <<i, d.stocks[members[n]]>>]
                 \o TickerPairs(d, Tail(indices), stockOrder)

RECURSIVE FirstSeen(_, _)
\* The keys of Counter(all_tickers): each ticker once, in the order of its
\* first occurrence
FirstSeen(all_tickers, seen) ==
    IF all_tickers = << >> THEN << >>
    ELSE IF Head(all_tickers) \in seen THEN FirstSeen(Tail(all_tickers), seen)
    ELSE <<Head(all_tickers)>> \o FirstSeen(Tail(all_tickers), seen \cup {Head(all_tickers)})

\* The count of all the tickers seen, whichever they are
CountAll(all_tickers, ticker) == Len(all_tickers)

\* ticker_counts[ticker]
CountOf(all_tickers, ticker) ==
    Cardinality({n \in 1..Len(all_tickers) : all_tickers[n] = ticker})

RECURSIVE NamesOf(_, _, _)
\* ticker_to_indices_map[ticker]
NamesOf(d, pairs, ticker) ==
    IF pairs = << >> THEN << >>
    ELSE IF Head(pairs)[2] = ticker
    THEN <<d.indices[Head(pairs)[1]].display_name>> \o NamesOf(d, Tail(pairs), ticker)
    ELSE NamesOf(d, Tail(pairs), ticker)

RECURSIVE InsertAscending(_, _)
InsertAscending(sorted, item) ==
    IF sorted = << >> THEN <<item>>
    ELSE IF Head(sorted).appears_in <= item.appears_in
    THEN <<Head(sorted)>> \o InsertAscending(Tail(sorted), item)
    ELSE <<item>> \o sorted

RECURSIVE InsertDescending(_, _)
\* item put behind every row whose appears_in is not smaller
InsertDescending(sorted, item) ==
    IF sorted = << >> THEN <<item>>
    ELSE IF Head(sorted).appears_in >= item.appears_in
    THEN <<Head(sorted)>> \o InsertDescending(Tail(sorted), item)
    ELSE <<item>> \o sorted

RECURSIVE SortByAppearsIn(_, _)
\* sorted(commonality_list, key=appears_in, reverse=True): a stable sort
SortByAppearsIn(sorted, list) ==
    IF list = << >> THEN sorted
    ELSE SortByAppearsIn(InsertDescending(sorted, Head(list)), Tail(list))

RECURSIVE SumAppearsIn(_)
SumAppearsIn(list) ==
    IF list = << >> THEN 0 ELSE Head(list).appears_in + SumAppearsIn(Tail(list))

\* Step 6: the summary, avg_overlap in tenths
Summary(sorted_list, total_indices_selected) ==
    LET total_unique_stocks == Len(sorted_list)
    IN  IF total_unique_stocks > 0
        THEN [total_unique_stocks |-> total_unique_stocks,
              avg_overlap |-> RoundTenths(SumAppearsIn(sorted_list), total_unique_stocks),
              high_overlap_stocks |->
                  Cardinality({n \in 1..Len(sorted_list) :
                                 AtLeastThreshold(sorted_list[n].appears_in,
                                                  total_indices_selected)})]
        ELSE [total_unique_stocks |-> 0, avg_overlap |-> 0, high_overlap_stocks |-> 0]

\* The function on the indices the query returned, in the order it returned
\* them
AnalyzeCommonStocks(d, indices, stockOrder) ==
    IF indices = << >>
    THEN [analysis_of |-> << >>, commonality |-> << >>,
          summary |-> [total_unique_stocks |-> 0, avg_overlap |-> 0,
                       high_overlap_stocks |-> 0]]
    ELSE LET Listed(pairs) ==
                 LET all_tickers == [n \in 1..Len(pairs) |-> pairs[n][2]]
                     keys == FirstSeen(all_tickers, {})
                     commonality_list ==
                         [n \in 1..Len(keys) |->
                            [stock |-> keys[n],
                             appears_in |-> CountOf(all_tickers, keys[n]),
                             indices |-> NamesOf(d, pairs, keys[n])]]
                 IN  SortByAppearsIn(<< >>, commonality_list)
             Result(sorted_list) ==
                 [analysis_of |-> [n \in 1..Len(indices) |->
                                     d.indices[indices[n]].display_name],
                  commonality |-> sorted_list,
                  summary |-> Summary(sorted_list, Len(indices))]
         IN  Result(Listed(TickerPairs(d, indices, stockOrder)))

-----------------------------------------------------------------------------
(* The analysis requests *)

\* The most distinct tickers and the most selected indices of a summary
\* computed on its own
MaxTickers == 2

MaxSelected == 10

\* index_ids of an AnalysisRequest, as the set the IN filter makes of it
IdSets == (SUBSET (1..(MaxIndices + 1))) \ {{}}

TickerLines == {<<"x">>, <<"y", " ">>, <<"z">>}

\* Constituent files that name no ticker twice
TickerFiles == UNION {Perms(S) : S \in SUBSET TickerLines}

AnalysisFiles == {<<"a", ".", "c">>, <<"b", ".", "c">>}

\* The query without its filter
AllIndices(d, index_ids) == DOMAIN d.indices

\* The indices the query returns: Index.id.in_(index_ids)
Selected(d, index_ids) == index_ids \cap DOMAIN d.indices

\* The stocks of index i
MembersOf(d, i) == {k \in DOMAIN d.stocks : <<i, k>> \in d.edges}

\* The orders in which the joined rows of the indices of S can come: one order
\* of its members for each index
StockOrders(d, S) ==
    {o \in [S -> UNION {Perms(MembersOf(d, i)) : i \in S}] :
        \A i \in S : o[i] \in Perms(MembersOf(d, i))}

\* run_common_stock_analysis: the query, then analyze_common_stocks on its rows.
\* indices and stockOrder are the order in which the database returns the
\* selected indices and the members of each.  The analysis is the last request
\* of a run
Analyze(index_ids, indices, stockOrder) ==
    /\ sess.kind = "idle"
    /\ nops <= MaxOps
    /\ nops' = MaxOps + 1
    /\ resp' = [NoResp EXCEPT
                  !.op = "analysis",
                  !.args = [index_ids |-> index_ids, indices |-> indices,
                            pairs |-> TickerPairs(db, indices, stockOrder)],
                  !.result = AnalyzeCommonStocks(db, indices, stockOrder)]
    /\ last' = NoFile
    /\ UNCHANGED <<db, sess, batch>>

NextAnalysis ==
    \/ \E f \in AnalysisFiles, c \in TickerFiles : CallProcessIndexCsv(f, c, 0, None)
    \/ \E index_ids \in IdSets :
          \E indices \in Perms(Selected(db, index_ids)) :
             \E stockOrder \in StockOrders(db, Selected(db, index_ids)) :
                Analyze(index_ids, indices, stockOrder)

\* Constituent uploads and overlap analyses
SpecAnalysis == Init /\ [][NextAnalysis]_vars

\* The appearance counts of the rows of a sorted list, and the number of
\* selected indices
InitSummary ==
    /\ db = EmptyStore
    /\ sess = IdleSess
    /\ last = NoFile
    /\ batch = << >>
    /\ nops = 0
    /\ \E n \in 1..MaxSelected :
          \E appears \in UNION {[1..k -> 1..n] : k \in 0..MaxTickers} :
             resp = [NoResp EXCEPT !.args = [appears_in |-> appears, selected |-> n]]

\* Step 6 of analyze_common_stocks on such a list
Summarize ==
    /\ resp.op = "none"
    /\ resp' = [resp EXCEPT
                  !.op = "summary",
                  !.result = Summary([k \in 1..Len(resp.args.appears_in) |->
                                        [appears_in |-> resp.args.appears_in[k]]],
                                     resp.args.selected)]
    /\ UNCHANGED <<db, sess, last, batch, nops>>

\* The summary as a function of the rows and the number of selected indices
SpecSummary == InitSummary /\ [][Summarize]_vars

-----------------------------------------------------------------------------
(* parse_tradingview_csv of main.py, the parser process_tv_alerts runs *)

LowerChar(c) ==
    CASE c = "A" -> "a"
      [] c = "B" -> "b"
      [] c = "H" -> "h"
      [] c = "L" -> "l"
      [] c = "N" -> "n"
      [] c = "W" -> "w"
      [] OTHER -> c

\* str.lower()
Lower(s) == [i \in 1..Len(s) |-> LowerChar(s[i])]

\* needle in hay
Contains(hay, needle) ==
    \E i \in 0..(Len(hay) - Len(needle)) : SubSeq(hay, i + 1, i + Len(needle)) = needle

RECURSIVE SplitLast(_, _)
\* s.split(sep)[-1]
SplitLast(s, sep) ==
    IF \E i \in 1..Len(s) : s[i] = sep
    THEN SplitLast(SubSeq(s, Len(SplitFirst(s, sep)) + 2, Len(s)), sep)
    ELSE s

NewHigh ==
    <<"N", "e", "w", " ", "5", "2", "-", "W", "e", "e", "k", " ", "H", "i", "g", "h", "!">>

NewLow ==
    <<"N", "e", "w", " ", "5", "2", "-", "W", "e", "e", "k", " ", "L", "o", "w", "!">>

NotMapped == <<"Not mapped">>

\* 1. Determine Flag Type, on the lowercased description
FlagOf(description) ==
    IF Contains(description, NewHigh) THEN "High"
    ELSE IF Contains(description, NewLow) THEN "Low"
    ELSE "Unknown"

\* The fallback on every ticker, whether it has a TradingViewMap row or not
FallbackOnly(d, ticker) ==
    LET index == First(IdsByName(d.indices, SplitLast(SplitFirst(ticker, ","), ":")))
    IN  IF index # 0
        THEN [mapped_id |-> index, mapped_name |-> d.indices[index].display_name]
        ELSE [mapped_id |-> 0, mapped_name |-> NotMapped]

\* 2. Map to Index.  mapped_id 0 is None
MapToIndex(d, ticker) ==
    IF ticker \in DOMAIN d.tvmap
    THEN LET mapped_id == d.tvmap[ticker]
         IN  [mapped_id |-> mapped_id,
              mapped_name |-> IF mapped_id \in DOMAIN d.indices
                              THEN d.indices[mapped_id].display_name
                              ELSE NotMapped]
    ELSE LET base_ticker == SplitFirst(ticker, ",")
             clean_ticker == SplitLast(base_ticker, ":")
             index == First(IdsByName(d.indices, clean_ticker))
         IN  IF index # 0
             THEN [mapped_id |-> index, mapped_name |-> d.indices[index].display_name]
             ELSE [mapped_id |-> 0, mapped_name |-> NotMapped]

\* 3. Format Date: a missing field raises inside the try
DateDisplay(time_str) ==
    IF time_str = None THEN <<"Invalid Date">>
    ELSE IF Contains(time_str, <<"T">>) THEN SplitFirst(time_str, "T")
    ELSE time_str

NoAlerts == [raised |-> FALSE, records |-> << >>, highs |-> 0, lows |-> 0]

RECURSIVE ParseRows(_, _, _)
\* for row in reader.  A field of a short row is None, and None has no lower()
ParseRows(d, rows, acc) ==
    IF rows = << >> THEN acc
    ELSE LET row == Head(rows)
             ticker == IF Truthy(row.Ticker) THEN row.Ticker ELSE row.Symbol
         IN  IF row.Description = None THEN [acc EXCEPT !.raised = TRUE]
             ELSE IF ~Truthy(ticker) THEN ParseRows(d, Tail(rows), acc)
             ELSE LET Flagged(flag, mapped) ==
                          ParseRows(d, Tail(rows),
                                    [acc EXCEPT
                                       !.records = Append(@,
                                           [ticker |-> ticker, flag_type |-> flag,
                                            mapped_index_id |-> mapped.mapped_id,
                                            mapped_index_name |-> mapped.mapped_name,
                                            date |-> DateDisplay(row.Time)]),
                                       !.highs = IF flag = "High" THEN @ + 1 ELSE @,
                                       !.lows = IF flag = "Low" THEN @ + 1 ELSE @])
                  IN  Flagged(FlagOf(Lower(row.Description)), MapToIndex(d, ticker))

\* parse_tradingview_csv(content, db)
ParseTradingviewCsv(d, rows) ==
    LET Returned(acc) ==
            [raised |-> acc.raised,
             records |-> acc.records,
             summary |-> [total_alerts |-> Len(acc.records),
                          highs |-> acc.highs, lows |-> acc.lows]]
    IN  Returned(ParseRows(d, rows, NoAlerts))

\* process_tv_alerts: the parser on the committed store; an exception becomes
\* a 500.  The request is the last one of a run
ProcessTvAlerts(rows) ==
    /\ sess.kind = "idle"
    /\ nops <= MaxOps
    /\ nops' = MaxOps + 1
    /\ LET Done(R) ==
               resp' = [NoResp EXCEPT
                          !.op = "alerts", !.ok = ~R.raised,
                          !.error = IF R.raised THEN "AttributeError" ELSE "none",
                          !.args = [rows |-> rows],
                          !.result = IF R.raised THEN EmptyFn
                                     ELSE [records |-> R.records, summary |-> R.summary]]
       IN  Done(ParseTradingviewCsv(db, rows))
    /\ last' = NoFile
    /\ UNCHANGED <<db, sess, batch>>

MaxAlerts == 2

Descriptions ==
    {NewHigh, NewLow, <<"a">> \o NewLow \o <<"b">>, Lower(NewHigh), <<"l", "o", "w">>,
     Empty, None}

\* The rows of SpecFlags: a ticker or none, and a description
FlagRows ==
    [Ticker : {Empty, <<"t">>}, Symbol : {None}, Description : Descriptions,
     Time : {<<"2", "T", "1">>}]

FlagFiles == UNION {[1..n -> FlagRows] : n \in 0..MaxAlerts}

\* The alert parser as a function of the rows of the file, on the empty store
NextFlags == \E rows \in FlagFiles : ProcessTvAlerts(rows)

SpecFlags == Init /\ [][NextFlags]_vars

-----------------------------------------------------------------------------
(* delete_index *)

\* The Index row deleted and nothing else
DeleteIndexOnly(d, index_id) ==
    [d EXCEPT !.indices = [i \in DOMAIN d.indices \ {index_id} |-> d.indices[i]]]

\* db.delete(index); db.commit(): the relationship Index.stocks cascades the
\* delete to the IndexConstituent rows of the index.  No relationship leads
\* from an Index to the TradingViewMap rows that point to it, and SQLite does
\* not enforce their foreign key
DeleteCascade(d, index_id) ==
    [d EXCEPT !.indices = [i \in DOMAIN d.indices \ {index_id} |-> d.indices[i]],
              !.edges = @ \ EdgesOf(d, index_id)]

\* DELETE /api/indices/{index_id}
DeleteIndex(index_id) ==
    /\ sess.kind = "idle"
    /\ IF index_id \notin DOMAIN db.indices
       THEN /\ resp' = [NoResp EXCEPT !.op = "delete", !.ok = FALSE,
                                      !.error = "404 Index not found",
                                      !.args = [index_id |-> index_id, edges |-> {}]]
            /\ UNCHANGED db
       ELSE /\ resp' = [NoResp EXCEPT !.op = "delete",
                                      !.args = [index_id |-> index_id,
                                                edges |-> EdgesOf(db, index_id)]]
            /\ db' = DeleteCascade(db, index_id)
    /\ last' = NoFile
    /\ UNCHANGED <<sess, batch, nops>>

\* The ids a client can name: those of the bounded store and one beyond
DeleteIds == 1..(MaxIndices + 1)

NextDelete ==
    \/ \E f \in AnalysisFiles, c \in TickerFiles : CallProcessIndexCsv(f, c, 0, None)
    \/ \E index_id \in DeleteIds : DeleteIndex(index_id)

\* Constituent uploads and index deletions
SpecDelete == Init /\ [][NextDelete]_vars

-----------------------------------------------------------------------------
(* Alerts on stores made by configuration batches, uploads and deletions *)

\* Configuration rows that name an Index, with or without an alert ticker; the
\* alert ticker "B" is also the name of an Index
AlertConfigRows ==
    [Filename : {Empty}, Name : {<<"a", " ">>, <<"B">>}, DisplayName : DisplayNames,
     Category : {Empty}, TVTicker : {Empty, <<"t">>, <<"B">>}]

AlertTickers ==
    {<<"t">>, <<"B">>, <<"b">>, <<"N", ":", "B", ",", " ", "1">>,
     <<"N", ":", "M", ":", "A", ",", "1", ",", "2">>}

AlertRows ==
    [Ticker : AlertTickers, Symbol : {None}, Description : {Empty},
     Time : {<<"2", "T", "1">>}]
        \cup [Ticker : {Empty}, Symbol : {<<"B">>}, Description : {Empty},
              Time : {<<"2", "T", "1">>}]

\* Alert files of one row
AlertFiles == {<<r>> : r \in AlertRows}

NextAlerts ==
    \/ BeginMasterConfig
    \/ \E row \in AlertConfigRows : MasterConfigRow(row)
    \/ MasterConfigReturn
    \/ \E f \in AnalysisFiles : CallProcessIndexCsv(f, <<<<"x">>>>, 0, None)
    \/ \E index_id \in DeleteIds : DeleteIndex(index_id)
    \/ \E rows \in AlertFiles : ProcessTvAlerts(rows)

\* Configuration batches, uploads, deletions and alert files
SpecAlerts == Init /\ [][NextAlerts]_vars

-----------------------------------------------------------------------------
(* Configuration batches that update the metadata of one Index *)

\* Rows for the Index B: each metadata field empty, of spaces only, or with a
\* value
MergeRows ==
    [Filename : {Empty}, Name : {<<"B">>}, DisplayName : {Empty, <<" ">>, <<"d">>},
     Category : {Empty, <<" ">>, <<"k">>},
     TVTicker : {Empty, <<" ">>, <<"t">>, <<"t", " ">>}]

NextMerge ==
    \/ BeginMasterConfig
    \/ \E row \in MergeRows : MasterConfigRow(row)
    \/ MasterConfigReturn

SpecMerge == Init /\ [][NextMerge]_vars

-----------------------------------------------------------------------------
(* process_index_csv on file names with one extension and with two *)

ResolveNames == {<<"a", ".", "c">>, <<"a", ".", "d">>, <<"a", ".", "b", ".", "c">>}

NextResolve ==
    \E f \in ResolveNames, c \in ShortContents, i \in IndexIds, k \in UploadCategories :
       CallProcessIndexCsv(f, c, i, k)

SpecResolve == Init /\ [][NextResolve]_vars

-----------------------------------------------------------------------------
(* Two process_index_csv calls at once, each on a session of its own.  What  *)
(* a call does between two of its commits is one step: resolve and commit    *)
(* (services.py 124-159), clear and commit (172-173), the loop over the      *)
(* tickers up to the commit of get_or_create_stock (179-183, 109-117), and   *)
(* the last commit (185-186).  In this specification sess holds the two      *)
(* calls.                                                                    *)

MaxConcurrentLines == 2

Callers == {1, 2}

ConcurrentNames == {<<"a", ".", "c">>, <<"a", ".", "d">>}

ConcurrentFiles == {c \in TickerFiles : Len(c) <= MaxConcurrentLines}

\* A call before its first statement
NewCall(file_name, lines) ==
    [pc |-> "resolve", file_name |-> file_name, tickers |-> ExtractTickers(lines),
     id |-> 0, rest |-> << >>, pending |-> << >>]

InitConcurrent ==
    /\ db = EmptyStore
    /\ resp = NoResp
    /\ last = NoFile
    /\ batch = << >>
    /\ nops = 0
    /\ \E f \in [Callers -> ConcurrentNames], c \in [Callers -> ConcurrentFiles] :
          sess = [kind |-> "concurrent",
                  calls |-> [p \in Callers |-> NewCall(f[p], c[p])]]

\* Steps 1 and 2 and the first commit
ResolveStep(p) ==
    /\ sess.kind = "concurrent"
    /\ sess.calls[p].pc = "resolve"
    /\ LET Done(R) ==
               /\ db' = R.db
               /\ sess' = [sess EXCEPT
                             !.calls[p].pc = IF R.ok THEN "clear" ELSE "failed",
                             !.calls[p].id = R.id]
       IN  Done(ResolveAndCommit(db, sess.calls[p].file_name, 0, None))
    /\ UNCHANGED <<resp, last, batch, nops>>

\* Clear old constituents, commit
ClearStep(p) ==
    /\ sess.kind = "concurrent"
    /\ sess.calls[p].pc = "clear"
    /\ db' = ClearConstituents(db, sess.calls[p].id)
    /\ sess' = [sess EXCEPT !.calls[p].pc = "load",
                            !.calls[p].rest = sess.calls[p].tickers]
    /\ UNCHANGED <<resp, last, batch, nops>>

RECURSIVE LoadUntilCommit(_, _, _, _)
\* The loop over tickers from one commit to the next: constituents of known
\* stocks are added to the session; a new Stock is committed, and the pending
\* constituents with it; after the last ticker record_count is set and
\* committed
LoadUntilCommit(d, call, rest, pending) ==
    IF rest = << >>
    THEN LET Returned(F) ==
                 [db |-> F.db,
                  call |-> [call EXCEPT !.pc = IF F.ok THEN "done" ELSE "failed",
                                        !.rest = << >>, !.pending = << >>]]
         IN  Returned(FinalCommit(d, call.id, pending, Len(call.tickers)))
    ELSE LET found == StockId(d, Head(rest))
         IN  IF found # 0
             THEN LoadUntilCommit(d, call, Tail(rest), Append(pending, <<call.id, found>>))
             ELSE LET Created(E, sid) ==
                          IF ~E.ok
                          THEN [db |-> d, call |-> [call EXCEPT !.pc = "failed",
                                                                !.rest = << >>,
                                                                !.pending = << >>]]
                          ELSE [db |-> [d EXCEPT !.stocks = (sid :> Head(rest)) @@ @,
                                                 !.edges = E.edges],
                                call |-> [call EXCEPT !.rest = Tail(rest),
                                                      !.pending = <<<<call.id, sid>>>>]]
                  IN  Created(InsertEdges(d.edges, pending), NextId(d.stocks))

LoadStep(p) ==
    /\ sess.kind = "concurrent"
    /\ sess.calls[p].pc = "load"
    /\ LET Done(L) ==
               /\ db' = L.db
               /\ sess' = [sess EXCEPT !.calls[p] = L.call]
       IN  Done(LoadUntilCommit(db, sess.calls[p], sess.calls[p].rest,
                                sess.calls[p].pending))
    /\ UNCHANGED <<resp, last, batch, nops>>

NextConcurrent ==
    \E p \in Callers : ResolveStep(p) \/ ClearStep(p) \/ LoadStep(p)

SpecConcurrent == InitConcurrent /\ [][NextConcurrent]_vars

-----------------------------------------------------------------------------
(* Properties *)

Range(q) == {q[i] : i \in 1..Len(q)}

\* C1: in every committed store state, each non-null expected_filename is held
\* by at most one Index
C1_FilenameUnique ==
    \A i, j \in DOMAIN db.indices :
        (i # j /\ db.indices[i].expected_filename # None)
            => db.indices[i].expected_filename # db.indices[j].expected_filename

\* C1 witness: a committed batch whose last row took a filename another Index
\* held, after a constituent upload has run
C1_Witness ==
    /\ resp.op = "config" /\ resp.ok
    /\ resp.lastRow.victims # {}
    /\ \E i \in DOMAIN db.indices : db.indices[i].original_filename # None

\* C2: when the last row of a batch resolves to Index B and carries a filename f
\* that another Index A holds (from before the batch or from an earlier row),
\* the batch completes, A's expected_filename is null and B's is f
C2_StealCompletes ==
    (resp.op = "config" /\ resp.lastRow.victims # {})
        => /\ resp.ok
           /\ db.indices[resp.lastRow.target].expected_filename = resp.lastRow.fname
           /\ \A a \in resp.lastRow.victims : db.indices[a].expected_filename = None

\* C3: running a batch that succeeded a second time succeeds and leaves the
\* same Index records and TradingViewMap rows
C3_Idempotent ==
    [][resp'.op = "rerun"
         => (resp'.ok /\ db'.indices = db.indices /\ db'.tvmap = db.tvmap)]_vars

\* C4: every run of process_index_csv succeeds, and afterwards the target's
\* record_count is the number of non-empty ticker lines and it has one
\* membership edge per such line
C4_OneEdgePerLine ==
    last.called
        => /\ last.ok
           /\ db.indices[last.target].record_count = Len(last.tickers)
           /\ Cardinality(EdgesOf(db, last.target)) = Len(last.tickers)

PreviousMembership ==
    /\ EdgesOf(db, last.target) = last.beforeEdges
    /\ last.existed => db.indices[last.target] = last.beforeRec

NewMembership ==
    /\ \A t \in Range(last.tickers) : StockId(db, t) # 0
    /\ EdgesOf(db, last.target)
           = {<<last.target, StockId(db, t)>> : t \in Range(last.tickers)}
    /\ db.indices[last.target].record_count = Len(last.tickers)

\* C5: when process_index_csv fails after resolving its index, the committed
\* store shows for that index its complete previous membership (with the
\* previous record_count and bookkeeping) or the complete new one
C5_AtomicReplace ==
    (last.called /\ ~last.ok /\ last.target # 0)
        => (PreviousMembership \/ NewMembership)

\* C6: a batch completes, and afterwards each alert ticker its rows carry has
\* one TradingViewMap row, pointing to the index of the last processed row
\* that carried it (batches that fail on something other than the mapping set
\* aside)
C6_MapUpsert ==
    (resp.op = "config" /\ resp.tvLast # EmptyFn
        /\ resp.error \in {"none", "UNIQUE constraint failed: tv_map"})
        => /\ resp.ok
           /\ \A t \in DOMAIN resp.tvLast :
                 t \in DOMAIN db.tvmap /\ db.tvmap[t] = resp.tvLast[t]

\* C7: a batch commits once, at its end: while its rows are read nothing is
\* committed, and a row that raises ends the request with the failure and the
\* committed store as it was before the call
C7_BatchAtomic ==
    [][sess.kind = "config"
         => \/ sess'.kind = "config" /\ db' = db
            \/ sess'.kind = "idle" /\ resp'.op = "config" /\ ~resp'.ok /\ db' = db
            \/ sess'.kind = "idle" /\ resp'.op = "config" /\ resp'.ok
                 /\ resp'.count = sess.count]_vars

\* C7 witness: a batch failed after it had staged rows and flushed a new Index
C7_Witness ==
    /\ resp.op = "config" /\ ~resp.ok
    /\ resp.staged > 0
    /\ resp.error = "UNIQUE constraint failed: indices"

\* C8: a file of an upload batch that would load when uploaded alone against
\* the same store loads in the batch
C8_FileIndependent == (last.seen /\ last.aloneOk) => (last.called /\ last.ok)

\* C9: every upload batch answers with one processed or errors entry per file
C9_OneEntryPerFile ==
    resp.op = "upload"
        => (resp.ok /\ Len(resp.processed) + Len(resp.errors) = resp.nfiles)

FileStep == sess.kind = "upload" /\ sess'.kind = "upload" /\ sess'.nfiles = sess.nfiles + 1

\* C10 as stated: in the endpoint a file is unmatched only when none of the
\* resolution steps 1 to 3 finds an index
C10_UnmatchedOnlyIfUnresolvable ==
    [][(FileStep /\ last'.unmatched)
         => ResolveUpload(db.indices, last'.file_name, sess.index_id) = 0]_vars

\* The one lookup the endpoint makes finds nothing
StrictNoMatch(ind, file_name, index_id) ==
    IF index_id # 0 THEN index_id \notin DOMAIN ind
    ELSE \A i \in DOMAIN ind : ind[i].expected_filename # file_name

\* C10 amended: in the endpoint a file is unmatched exactly when the one lookup
\* the endpoint makes finds nothing (the Index with the given index_id when one
\* is given, else the Index whose expected_filename is the filename); then the
\* store does not change; and no file of the endpoint creates an Index
C10_StrictUpload ==
    [][FileStep
         => /\ last'.unmatched
                  <=> StrictNoMatch(db.indices, last'.file_name, sess.index_id)
            /\ last'.unmatched => db' = db
            /\ DOMAIN db'.indices = DOMAIN db.indices]_vars

\* C10 witness: a file was unmatched although an Index bears the name derived
\* from it
C10_Witness ==
    /\ sess.kind = "upload" /\ last.seen /\ last.unmatched
    /\ ResolveUpload(db.indices, last.file_name, sess.index_id) # 0


\* The selected indices that hold the ticker
Holders(ticker) ==
    {i \in Range(resp.args.indices) :
        \E k \in DOMAIN db.stocks : db.stocks[k] = ticker /\ <<i, k>> \in db.edges}

\* The place of the first pair seen with the ticker
FirstPlace(ticker) ==
    CHOOSE n \in 1..Len(resp.args.pairs) :
        /\ resp.args.pairs[n][2] = ticker
        /\ \A m \in 1..(n - 1) : resp.args.pairs[m][2] # ticker

\* C11: an analysis of stored indices returns one row per distinct ticker of
\* the selection; its appears_in is the number of selected indices holding the
\* ticker and its indices are their display names in processing order; the rows
\* are sorted by appears_in descending, rows of equal appears_in in the order
\* their tickers were first met
C11_OverlapRanking ==
    (resp.op = "analysis" /\ resp.args.indices # << >>)
        => LET rows == resp.result.commonality
               held == {db.stocks[e[2]] : e \in {x \in db.edges : x[1] \in Range(resp.args.indices)}}
           IN  /\ {rows[n].stock : n \in 1..Len(rows)} = held
               /\ Len(rows) = Cardinality(held)
               /\ \A n \in 1..Len(rows) :
                     /\ rows[n].appears_in = Cardinality(Holders(rows[n].stock))
                     /\ rows[n].appears_in
                            = Cardinality({m \in 1..Len(resp.args.pairs) :
                                             resp.args.pairs[m][2] = rows[n].stock})
                     /\ rows[n].indices
                            = [m \in 1..rows[n].appears_in |->
                                 db.indices[Keep(resp.args.indices,
                                                 Holders(rows[n].stock))[m]].display_name]
               /\ \A n, m \in 1..Len(rows) :
                     n < m => \/ rows[n].appears_in > rows[m].appears_in
                              \/ /\ rows[n].appears_in = rows[m].appears_in
                                 /\ FirstPlace(rows[n].stock) < FirstPlace(rows[m].stock)

\* C11 witness: an analysis of two indices put a shared ticker before a ticker
\* met earlier, and kept two tickers of equal count in the order they were met
C11_Witness ==
    /\ resp.op = "analysis" /\ Len(resp.args.indices) = 2
    /\ LET rows == resp.result.commonality
       IN  /\ Len(rows) = 3
           /\ rows[1].appears_in = 2 /\ FirstPlace(rows[1].stock) > 1
           /\ rows[2].appears_in = 1 /\ rows[3].appears_in = 1

\* C12: with n indices selected, high_overlap_stocks is the number of rows whose
\* appearance count c has 10*c >= 7*n, and total_unique_stocks is the number of
\* rows (one per distinct ticker)
C12_HighOverlap ==
    resp.op = "summary"
        => LET appears == resp.args.appears_in
               n == resp.args.selected
           IN  /\ resp.result.high_overlap_stocks
                      = Cardinality({k \in 1..Len(appears) : 10 * appears[k] >= 7 * n})
               /\ resp.result.total_unique_stocks = Len(appears)

\* C12 witness: ten indices selected and a ticker in exactly seven of them,
\* counted as high overlap
C12_Witness ==
    /\ resp.op = "summary" /\ resp.args.selected = 10
    /\ resp.args.appears_in = <<7, 6>>
    /\ resp.result.high_overlap_stocks = 1

\* No stock is a member of two of the selected indices, and some selected index
\* has a member
NoSharedStocks ==
    /\ \A i, j \in Range(resp.args.indices) :
          i # j => MembersOf(db, i) \cap MembersOf(db, j) = {}
    /\ \E i \in Range(resp.args.indices) : MembersOf(db, i) # {}

\* C13: when no ticker belongs to more than one selected index and some
\* selected index has a member, every row has appears_in 1 and avg_overlap is
\* 1.0
C13_NoSharedStocks ==
    (resp.op = "analysis" /\ NoSharedStocks)
        => /\ \A n \in 1..Len(resp.result.commonality) :
                 resp.result.commonality[n].appears_in = 1
           /\ resp.result.commonality # << >>
           /\ resp.result.summary.avg_overlap = 10

\* C13 witness: an analysis of two indices that have members and share none
C13_Witness ==
    /\ resp.op = "analysis" /\ NoSharedStocks
    /\ Len(resp.args.indices) = 2
    /\ \A i \in Range(resp.args.indices) : MembersOf(db, i) # {}
    /\ Len(resp.result.commonality) = 3

\* C14: an analysis whose ids match no stored Index returns, without raising,
\* empty analysis_of and commonality lists and a summary of zeros
C14_NoMatchEmpty ==
    (resp.op = "analysis" /\ resp.args.index_ids \cap DOMAIN db.indices = {})
        => /\ resp.ok
           /\ resp.result.analysis_of = << >>
           /\ resp.result.commonality = << >>
           /\ resp.result.summary
                  = [total_unique_stocks |-> 0, avg_overlap |-> 0, high_overlap_stocks |-> 0]

\* C14 witness: an analysis of an id that is not stored, on a store that has
\* indices with members
C14_Witness ==
    /\ resp.op = "analysis"
    /\ resp.args.index_ids # {}
    /\ resp.args.index_ids \cap DOMAIN db.indices = {}
    /\ db.edges # {}
    /\ resp.result.commonality = << >>

\* The rows of the alert file that have a ticker
RowsWithTicker ==
    SelectSeq(resp.args.rows, LAMBDA r : Truthy(r.Ticker) \/ Truthy(r.Symbol))

\* The flag the description as written in the file calls for
FlagOfPhrase(description) ==
    IF Contains(description, NewHigh) THEN "High"
    ELSE IF Contains(description, NewLow) THEN "Low"
    ELSE "Unknown"

\* C16: in the parser the alerts endpoint runs, each row with a ticker is a
\* record; its flag_type is High when its Description contains
\* "New 52-Week High!", Low when it contains "New 52-Week Low!", else Unknown;
\* summary.highs and summary.lows count the High and the Low records
C16_FlagClassification ==
    (resp.op = "alerts" /\ \A k \in 1..Len(resp.args.rows) : resp.args.rows[k].Description # None)
        => /\ resp.ok
           /\ Len(resp.result.records) = Len(RowsWithTicker)
           /\ \A k \in 1..Len(RowsWithTicker) :
                 resp.result.records[k].flag_type = FlagOfPhrase(RowsWithTicker[k].Description)
           /\ resp.result.summary.highs
                  = Cardinality({k \in 1..Len(RowsWithTicker) :
                                   FlagOfPhrase(RowsWithTicker[k].Description) = "High"})
           /\ resp.result.summary.lows
                  = Cardinality({k \in 1..Len(RowsWithTicker) :
                                   FlagOfPhrase(RowsWithTicker[k].Description) = "Low"})

\* C17: delete_index on a stored Index removes, in one commit, that Index and
\* the membership edges of that Index, and leaves every Stock row, every other
\* Index and every other edge as they were; on an unknown id it answers
\* not-found and leaves the store unchanged
C17_DeleteCascade ==
    [][resp'.op = "delete"
         => LET id == resp'.args.index_id
            IN  IF id \in DOMAIN db.indices
                THEN /\ resp'.ok
                     /\ DOMAIN db'.indices = DOMAIN db.indices \ {id}
                     /\ \A i \in DOMAIN db'.indices : db'.indices[i] = db.indices[i]
                     /\ db'.edges = {e \in db.edges : e[1] # id}
                     /\ db'.stocks = db.stocks
                ELSE /\ ~resp'.ok
                     /\ db' = db]_vars

\* C17 witness: an Index with members was deleted; the edges of another Index
\* are still there, and so is a Stock that no Index holds any more
C17_Witness ==
    /\ resp.op = "delete" /\ resp.ok
    /\ resp.args.edges # {}
    /\ db.edges # {}
    /\ \E k \in DOMAIN db.stocks : \A e \in db.edges : e[2] # k

\* The place of the first sep in s, Len(s) + 1 when there is none
FirstAt(s, sep) ==
    IF \E i \in 1..Len(s) : s[i] = sep
    THEN CHOOSE i \in 1..Len(s) : s[i] = sep /\ \A j \in 1..(i - 1) : s[j] # sep
    ELSE Len(s) + 1

\* The place of the last sep in s, 0 when there is none
LastAt(s, sep) ==
    IF \E i \in 1..Len(s) : s[i] = sep
    THEN CHOOSE i \in 1..Len(s) : s[i] = sep /\ \A j \in (i + 1)..Len(s) : s[j] # sep
    ELSE 0

\* The ticker without everything from its first comma on, and then without
\* everything up to its last colon
Token(ticker) ==
    LET base == SubSeq(ticker, 1, FirstAt(ticker, ",") - 1)
    IN  SubSeq(base, LastAt(base, ":") + 1, Len(base))

\* C15: an alert ticker without a TradingViewMap row is mapped to the Index
\* named by its token (and to none when no Index bears that name); a ticker
\* with a TradingViewMap row is mapped to the index_id of that row
C15_AlertFallback ==
    (resp.op = "alerts" /\ resp.ok)
        => \A k \in 1..Len(resp.result.records) :
              LET rec == resp.result.records[k]
              IN  IF rec.ticker \in DOMAIN db.tvmap
                  THEN rec.mapped_index_id = db.tvmap[rec.ticker]
                  ELSE IF \E i \in DOMAIN db.indices : db.indices[i].name = Token(rec.ticker)
                  THEN /\ rec.mapped_index_id \in DOMAIN db.indices
                       /\ db.indices[rec.mapped_index_id].name = Token(rec.ticker)
                       /\ rec.mapped_index_name
                              = db.indices[rec.mapped_index_id].display_name
                  ELSE /\ rec.mapped_index_id = 0
                       /\ rec.mapped_index_name = NotMapped

\* C15 witness: a ticker with a prefix and a timeframe, and without a
\* TradingViewMap row, was mapped to the Index named by its token, while a
\* TradingViewMap row maps that name, as an alert ticker, to another Index
C15_Witness ==
    /\ resp.op = "alerts" /\ resp.ok
    /\ Len(resp.result.records) = 1
    /\ resp.result.records[1].ticker = <<"N", ":", "B", ",", " ", "1">>
    /\ resp.result.records[1].mapped_index_id \in DOMAIN db.indices
    /\ <<"B">> \in DOMAIN db.tvmap
    /\ db.tvmap[<<"B">>] # resp.result.records[1].mapped_index_id

\* C18: every alert record named "Not mapped" has a null mapped_index_id, and
\* every record with a mapped_index_id bears the display name of the stored
\* Index with that id
C18_NotMappedIsNull ==
    (resp.op = "alerts" /\ resp.ok)
        => \A k \in 1..Len(resp.result.records) :
              LET rec == resp.result.records[k]
              IN  /\ rec.mapped_index_name = NotMapped => rec.mapped_index_id = 0
                  /\ rec.mapped_index_id # 0
                        => /\ rec.mapped_index_id \in DOMAIN db.indices
                           /\ rec.mapped_index_name
                                  = db.indices[rec.mapped_index_id].display_name

\* The Index records as the earlier rows of the batch have left them
UpdatedIndices(S) == [i \in DOMAIN S.tx.indices |-> Effective(S, i)]

\* The targets the resolution order allows for the row on the records ind: the
\* Index of that name, else the holders of the filename
ClaimedTargets(ind, row) ==
    LET byName == IF RowName(row) # Empty THEN IdsByName(ind, RowName(row)) ELSE {}
    IN  IF byName # {} THEN byName
        ELSE IF RowFilename(row) # Empty THEN IdsByFilename(ind, RowFilename(row))
        ELSE {}

\* The session after the row is the one the resolution order calls for
ResolvedAsClaimed(S, row, T) ==
    LET ind == UpdatedIndices(S)
        final_name == IF RowName(row) # Empty THEN RowName(row) ELSE Upper(RowFilename(row))
    IN  IF ClaimedTargets(ind, row) # {}
        THEN /\ T.lastRow.target \in ClaimedTargets(ind, row)
             /\ DOMAIN T.tx.indices = DOMAIN S.tx.indices
             /\ T.count = S.count + 1
        ELSE IF IdsByName(ind, final_name) # {}
        THEN /\ T.lastRow = NoTarget
             /\ DOMAIN T.tx.indices = DOMAIN S.tx.indices
             /\ T.count = S.count
        ELSE /\ T.lastRow.target \notin DOMAIN S.tx.indices
             /\ DOMAIN T.tx.indices = DOMAIN S.tx.indices \cup {T.lastRow.target}
             /\ T.tx.indices[T.lastRow.target].name = final_name
             /\ T.count = S.count + 1

\* C19: each row of a batch with a name or a filename, read on the Index
\* records as the earlier rows of the batch have left them, goes to the Index
\* of its name if there is one, else to the Index that holds its filename, else
\* to a new Index named by the name (by the uppercased filename when the name is
\* empty); when an Index of that name exists already the row is skipped,
\* creates nothing and is not counted
C19_RowResolution ==
    [][(sess.kind = "config" /\ sess'.kind = "config" /\ sess'.nrows = sess.nrows + 1)
         => \A row \in ConfigRows :
               (/\ RowName(row) # Empty \/ RowFilename(row) # Empty
                /\ sess' = [ConfigRow(db, sess, row).s EXCEPT !.nrows = sess.nrows + 1])
                   => ResolvedAsClaimed(sess, row, sess')]_vars

\* A field that is missing, empty, or of spaces only
Blank(v) == v = None \/ Strip(v) = Empty

\* C20: a configuration row leaves display_name and category of its Index as
\* they were when its field is blank and overwrites them with its value
\* otherwise; it sets tv_ticker to its (trimmed) value, and to null when the
\* field is blank
C20_MergePolicy ==
    (sess.kind = "config" /\ sess.lastRow.target # 0)
        => LET row == sess.lastRow.row
               before == sess.lastRow.before
               after == Effective(sess, sess.lastRow.target)
           IN  /\ after.display_name
                      = IF Blank(row.DisplayName) THEN before.display_name
                        ELSE row.DisplayName
               /\ after.category
                      = IF Blank(row.Category) THEN before.category ELSE row.Category
               /\ after.tv_ticker
                      = IF Blank(row.TVTicker) THEN None ELSE Strip(row.TVTicker)

\* The file name without its extension (what follows its last dot), uppercased
WithoutExtension(file_name) ==
    Upper(IF LastAt(file_name, ".") = 0 THEN file_name
          ELSE SubSeq(file_name, 1, LastAt(file_name, ".") - 1))

\* The resolution order of the loader on the indices ind, for the name derived
\* from the file: the target t is the Index index_id, else the holder of the
\* file name, else the Index of the derived name, else a new Index
TargetAsClaimed(ind, ind2, t, file_name, index_id, category, derived) ==
    IF index_id # 0 /\ index_id \in DOMAIN ind THEN t = index_id
    ELSE IF \E j \in DOMAIN ind : ind[j].expected_filename = file_name
    THEN t \in DOMAIN ind /\ ind[t].expected_filename = file_name
    ELSE IF \E j \in DOMAIN ind : ind[j].name = derived
    THEN t \in DOMAIN ind /\ ind[t].name = derived
    ELSE /\ t \notin DOMAIN ind /\ t \in DOMAIN ind2
         /\ ind2[t].name = derived
         /\ ind2[t].category = (IF Truthy(category) THEN category ELSE Uncategorized)
         /\ ind2[t].expected_filename = file_name

\* Only Index t and its membership differ between stores d and d2
OnlyTargetChanged(d, d2, t) ==
    /\ DOMAIN d2.indices \subseteq DOMAIN d.indices \cup {t}
    /\ \A j \in DOMAIN d.indices \ {t} :
          /\ j \in DOMAIN d2.indices /\ d2.indices[j] = d.indices[j]
          /\ EdgesOf(d2, j) = EdgesOf(d, j)

\* C21: process_index_csv targets the Index with the given index_id if it
\* exists, else the Index whose expected_filename is the file name, else the
\* Index named by the file name without its extension, uppercased, else a new
\* Index of that name with the given category or "Uncategorized" and the file
\* name as expected_filename; no other Index and no other membership changes
C21_UploadResolution ==
    [][resp'.op = "process_index_csv"
         => /\ TargetAsClaimed(db.indices, db'.indices, last'.target, last'.file_name,
                               last'.index_id, resp'.args.category,
                               WithoutExtension(last'.file_name))
            /\ OnlyTargetChanged(db, db', last'.target)]_vars

\* C21 with the derived name read as the code derives it: the file name
\* uppercased, up to its first dot
C21_FirstDot ==
    [][resp'.op = "process_index_csv"
         => /\ TargetAsClaimed(db.indices, db'.indices, last'.target, last'.file_name,
                               last'.index_id, resp'.args.category,
                               NameFromFile(last'.file_name))
            /\ OnlyTargetChanged(db, db', last'.target)]_vars

\* No two of the Index records ind hold the same non-null expected_filename
FilenamesDistinct(ind) ==
    \A i, j \in DOMAIN ind :
        (i # j /\ ind[i].expected_filename # None)
            => ind[i].expected_filename # ind[j].expected_filename

\* C22: at every step of a configuration batch no two Index records, as the
\* rows read so far have left them, hold the same non-null expected_filename,
\* and no UPDATE of a flush writes a filename that another Index still holds in
\* the store (the database refuses such an UPDATE with a UNIQUE failure)
C22_StealSequencing ==
    /\ sess.kind = "config" => FilenamesDistinct(UpdatedIndices(sess))
    /\ resp.op = "config" => resp.error # "UNIQUE constraint failed: indices"

\* The second part of C22 alone: the UPDATEs of a flush
C22_FlushOrder ==
    resp.op = "config" => resp.error # "UNIQUE constraint failed: indices"

\* The tickers of the members of Index id
MemberTickers(d, id) == {d.stocks[e[2]] : e \in EdgesOf(d, id)}

\* C23: when two concurrent process_index_csv calls on the same Index have
\* both returned, the members of the Index are the tickers of one of the two
\* files, and its record_count is the number of its membership edges
C23_LastWriterWins ==
    (/\ sess.kind = "concurrent"
     /\ \A p \in Callers : sess.calls[p].pc = "done"
     /\ sess.calls[1].id = sess.calls[2].id)
        => LET id == sess.calls[1].id
           IN  /\ \E p \in Callers : MemberTickers(db, id) = Range(sess.calls[p].tickers)
               /\ db.indices[id].record_count = Cardinality(EdgesOf(db, id))

\* C24: in every committed store the index_id of every TradingViewMap row is
\* the id of a stored Index
C24_MapIntegrity ==
    \A t \in DOMAIN db.tvmap : db.tvmap[t] \in DOMAIN db.indices


\* The row has a name and an empty Filename
ClearsFilename(row) == RowName(row) # Empty /\ RowFilename(row) = Empty

\* C25: a configuration row with a name and an empty Filename leaves the
\* expected_filename of its Index null, whatever it held before; once the
\* batch that ends with the row is committed, no filename of an upload is
\* matched to that Index through expected_filename
C25_FilenameCleared ==
    /\ (/\ sess.kind = "config"
        /\ sess.lastRow.target # 0
        /\ ClearsFilename(sess.lastRow.row))
           => Effective(sess, sess.lastRow.target).expected_filename = None
    /\ (/\ resp.op = "config"
        /\ resp.ok
        /\ resp.lastRow.target # 0
        /\ ClearsFilename(resp.lastRow.row)
        /\ resp.lastRow.target \in DOMAIN db.indices)
           => LET t == resp.lastRow.target
              IN  /\ db.indices[t].expected_filename = None
                  /\ \A f \in RawFilenames \cup UploadNames :
                        /\ t \notin IdsByFilename(db.indices, f)
                        /\ EndpointTarget(db.indices, f, 0) # t

\* A committed batch whose only applied row cleared the filename its Index
\* held in the committed store
C25_Witness ==
    /\ resp.op = "config"
    /\ resp.ok
    /\ resp.staged = 1
    /\ resp.lastRow.target \in DOMAIN db.indices
    /\ ClearsFilename(resp.lastRow.row)
    /\ resp.lastRow.before.expected_filename # None
    /\ db.indices[resp.lastRow.target].expected_filename = None

====
